---- MODULE Spec2Model ----
(***************************************************************************)
(* candecode: the MCAP Writer (channel registry + container writer) and    *)
(* the DBC frame decoder, as state machines.                               *)
(*                                                                         *)
(* The repository holds two revisions of the Writer:                       *)
(*   src/unnamed/part_001    ("part_001")                                  *)
(*   src/pkg/mcap/writer.go  ("writer_go")                                 *)
(* The variable ver fixes which one a behaviour runs.                      *)
(***************************************************************************)
EXTENDS Integers, Sequences, FiniteSets, TLC

VARIABLES
    ver,          \* which revision of the Writer is running
    mu,           \* Writer.mu: NoOwner, or the thread holding it
    nextChanID,   \* Writer.nextChanID (uint16)
    channels,     \* Writer.channels: key string -> channel ID
    closed,       \* the underlying mcap.Writer has completed Close
    records,      \* the record stream: channel and message records, in write order
    pc,           \* each thread's position
    ds,           \* each thread's argument of WriteDecodedSignal
    chID,         \* each thread's local chID in ensureChannel
    channelID,    \* each thread's channelID, the value ensureChannel returned
    msg,          \* each thread's mcap.Message handed to WriteMessage
    ret,          \* each thread's last WriteDecodedSignal return: "none", "ok", "err"
    afterClose,   \* the thread's current/last call began after Close had returned
    calls,        \* number of WriteDecodedSignal calls made so far
    closeCalled,  \* Writer.Close has been called
    allocated,    \* history: channel IDs in allocation order
    resolved,     \* history: <<key, id>> pairs ensureChannel returned without error
    failedKeys,   \* history: keys whose WriteChannel failed at least once
    db,           \* Compiler.db.Messages: the message descriptors
    dec,          \* the last dbc.Decoder.Decode call: frame and result
    pb,           \* the DecodedSignal proto the converter built last
    xdata,        \* can package: the data argument of the extractor
    xsig,         \* can package: the dbc.Signal argument of the extractor
    xres,         \* can package: the last call of the extractor and its result
    stream,       \* converter: the frames the reader has not returned yet
    cpc,          \* converter: position of run in the frame loop
    frame,        \* converter: the frame ReadFrame returned last
    pending,      \* converter: signals of decodedSignals not yet iterated
    msgOk,        \* converter: ok of compiler.Message(frame.ID)
    frameCount,   \* converter: frameCount
    messageCount, \* converter: messageCount
    signalRecords,\* converter: signalRecords
    ctxDone,      \* converter: ctx.Done() is closed
    runRet,       \* converter: what run returned, "none" while it runs
    framesRead,   \* history: frames ReadFrame has returned
    framesDecoded,\* history: frames Decode has decoded without error
    decodeErrors, \* history: frames Decode has failed on
    writeErrors,  \* history: WriteDecodedSignal calls that returned an error
    written,      \* history: <<frame number, signal>> of the successful writes
    mwCloseCalls, \* converter: calls of mw.Close made by run's deferred function
    defs,         \* dbc.Compiler: the definitions the parser returned (c.defs)
    comp,         \* dbc.Compiler: what NewCompiler returned, with c.db and c.errors
    packets,      \* pcapng.Reader: the packets of the capture not read yet
    linkType,     \* pcapng.Reader: the link type of the capture
    packetCount,  \* pcapng.Reader: packetCount
    rres          \* pcapng.Reader: the last ReadNext call's result

wvars == <<ver, mu, nextChanID, channels, closed, records, pc, ds, chID, channelID,
           msg, ret, afterClose, calls, closeCalled, allocated, resolved, failedKeys>>
dvars == <<db, dec, pb>>
xvars == <<xdata, xsig, xres>>
cvars == <<stream, cpc, frame, pending, msgOk, frameCount, messageCount, signalRecords,
           ctxDone, runRet, framesRead, framesDecoded, decodeErrors, writeErrors,
           written, mwCloseCalls>>
kvars == <<defs, comp>>
rvars == <<packets, linkType, packetCount, rres>>
vars == <<wvars, dvars, xvars, cvars, kvars, rvars>>

----------------------------------------------------------------------------
(* Bounds *)
NumProcs == 2
MaxCalls == 3

(* Program constants *)
SchemaID == 1
InitialChanID == 1
ZeroTimeNanos == -1   \* stands for uint64(time.Time{}.UnixNano()), outside TLC's integers

Procs == 1..NumProcs
NoOwner == 0
Nil == [nil |-> TRUE]
Versions == {"part_001", "writer_go"}

----------------------------------------------------------------------------
(* fmt.Sprintf("0x%X", canID): upper-case hexadecimal, no padding *)
HexDigits == <<"0","1","2","3","4","5","6","7","8","9","A","B","C","D","E","F">>

RECURSIVE HexOf(_)
HexOf(n) == IF n < 16 THEN HexDigits[n + 1]
            ELSE HexOf(n \div 16) \o HexDigits[(n % 16) + 1]

HexID(canID) == "0x" \o HexOf(canID)

channelKey(hexID, signalName) == hexID \o ":" \o signalName

KeyOf(d) == channelKey(HexID(d.CanId), d.Name)

Topic(messageName, signalName) == "/can/" \o messageName \o "/" \o signalName

BoolString(b) == IF b THEN "true" ELSE "false"

(* timestamppb.Timestamp.AsTime().UnixNano() *)
UnixNano(t) == t.seconds * 1000000000 + t.nanos

----------------------------------------------------------------------------
(* Inputs: the DecodedSignal values callers pass, and the wall clock *)
Stamp(s, n) == [seconds |-> s, nanos |-> n]

DecodedSignals ==
    { [CanId |-> 256, IsExtended |-> FALSE, MessageName |-> "Engine",
       Name |-> "Speed", Unit |-> "km/h", Timestamp |-> Stamp(1, 5)],
      [CanId |-> 26, IsExtended |-> TRUE, MessageName |-> "Brake",
       Name |-> "Temp", Unit |-> "", Timestamp |-> Nil] }

WallClock == { Stamp(2, 0) }

Keys == { KeyOf(d) : d \in DecodedSignals }

----------------------------------------------------------------------------
(* Writer: construction *)
IdModulus == 65536

(* no call of the can package has been made *)
ExtractorIdle ==
    /\ xdata = << >>
    /\ xsig = Nil
    /\ xres = Nil

(* converter.run has not been started *)
ConverterIdle ==
    /\ stream = << >>
    /\ cpc = "idle"
    /\ frame = Nil
    /\ pending = {}
    /\ msgOk = FALSE
    /\ frameCount = 0
    /\ messageCount = 0
    /\ signalRecords = 0
    /\ ctxDone = FALSE
    /\ runRet = "none"
    /\ framesRead = 0
    /\ framesDecoded = 0
    /\ decodeErrors = 0
    /\ writeErrors = 0
    /\ written = {}
    /\ mwCloseCalls = 0

(* NewCompiler has not been called *)
CompilerIdle ==
    /\ defs = << >>
    /\ comp = Nil

(* no capture has been opened *)
ReaderIdle ==
    /\ packets = << >>
    /\ linkType = 0
    /\ packetCount = 0
    /\ rres = Nil

(* NewWriter has returned and no thread has called the Writer *)
WriterIdle ==
    /\ ver = "part_001"
    /\ mu = NoOwner
    /\ nextChanID = InitialChanID
    /\ channels = << >>
    /\ closed = FALSE
    /\ records = << >>
    /\ pc = [p \in Procs |-> "idle"]
    /\ ds = [p \in Procs |-> Nil]
    /\ chID = [p \in Procs |-> 0]
    /\ channelID = [p \in Procs |-> 0]
    /\ msg = [p \in Procs |-> Nil]
    /\ ret = [p \in Procs |-> "none"]
    /\ afterClose = [p \in Procs |-> FALSE]
    /\ calls = 0
    /\ closeCalled = FALSE
    /\ allocated = << >>
    /\ resolved = {}
    /\ failedKeys = {}

Init ==
    /\ ver \in Versions
    /\ mu = NoOwner
    /\ nextChanID = InitialChanID
    /\ channels = << >>
    /\ closed = FALSE
    /\ records = << >>
    /\ pc = [p \in Procs |-> "idle"]
    /\ ds = [p \in Procs |-> Nil]
    /\ chID = [p \in Procs |-> 0]
    /\ channelID = [p \in Procs |-> 0]
    /\ msg = [p \in Procs |-> Nil]
    /\ ret = [p \in Procs |-> "none"]
    /\ afterClose = [p \in Procs |-> FALSE]
    /\ calls = 0
    /\ closeCalled = FALSE
    /\ allocated = << >>
    /\ resolved = {}
    /\ failedKeys = {}
    /\ db = << >>
    /\ dec = Nil
    /\ pb = Nil
    /\ ExtractorIdle
    /\ ConverterIdle
    /\ CompilerIdle
    /\ ReaderIdle

(* a Writer without mutual exclusion: Lock never waits *)
MuFreeNoMutex == TRUE

(* w.mu.Lock() succeeds only when no thread holds the mutex *)
MuFree == mu = NoOwner

(* a registry that never finds a key *)
CachedNever(key) == FALSE

(* if id, ok := w.channels[key]; ok *)
Cached(key) == key \in DOMAIN channels

(* the channel ID a miss allocates: part_001 reads the counter and then
   increments it; writer.go increments it and then reads it *)
AllocChanID == IF ver = "part_001" THEN nextChanID
               ELSE (nextChanID + 1) % IdModulus

(* a metadata map that carries unit unconditionally *)
MetadataWithUnit(d) ==
    [can_id |-> HexID(d.CanId), message |-> d.MessageName, signal |-> d.Name,
     is_extended |-> BoolString(d.IsExtended), unit |-> d.Unit]

(* the metadata map of a new channel *)
ChannelMetadata(d) ==
    IF d.Unit # ""
    THEN [can_id |-> HexID(d.CanId), message |-> d.MessageName, signal |-> d.Name,
          is_extended |-> BoolString(d.IsExtended)] @@ [unit |-> d.Unit]
    ELSE [can_id |-> HexID(d.CanId), message |-> d.MessageName, signal |-> d.Name,
          is_extended |-> BoolString(d.IsExtended)]

(* the mcap.Channel handed to WriteChannel *)
ChannelRecord(id, d) ==
    [type |-> "channel", id |-> id, schemaID |-> SchemaID,
     topic |-> Topic(d.MessageName, d.Name), encoding |-> "protobuf",
     metadata |-> ChannelMetadata(d)]

(* ts of WriteDecodedSignal, in nanoseconds: the signal's timestamp, or the
   fallback (part_001: the zero time; writer.go: time.Now()) *)
TsNanos(d, now) ==
    IF d.Timestamp # Nil THEN UnixNano(d.Timestamp)
    ELSE IF ver = "part_001" THEN ZeroTimeNanos ELSE UnixNano(now)

(* PublishTime: part_001 reads the wall clock, writer.go uses ts *)
PublishNanos(d, now) ==
    IF ver = "part_001" THEN UnixNano(now) ELSE TsNanos(d, now)

(* the mcap.Message handed to WriteMessage *)
MessageRecord(id, d, now) ==
    [type |-> "message", channelID |-> id, sequence |-> 0,
     logTime |-> TsNanos(d, now), publishTime |-> PublishNanos(d, now),
     data |-> d]

----------------------------------------------------------------------------
(* Writer.WriteDecodedSignal, entry: the nil check. A thread's locals are
   cleared when they are dead, so that states differ only in live values. *)
Call(p, d) ==
    /\ pc[p] = "idle"
    /\ calls < MaxCalls
    /\ calls' = calls + 1
    /\ afterClose' = [afterClose EXCEPT ![p] = closed]
    /\ ds' = [ds EXCEPT ![p] = d]
    /\ IF d = Nil
       THEN /\ ret' = [ret EXCEPT ![p] = "err"]
            /\ pc' = pc
       ELSE /\ ret' = [ret EXCEPT ![p] = "none"]
            /\ pc' = [pc EXCEPT ![p] = "ensureChannel"]
    /\ UNCHANGED <<ver, mu, nextChanID, channels, closed, records, chID, channelID,
                   msg, closeCalled, allocated, resolved, failedKeys, dvars, xvars, cvars,
                   kvars, rvars>>

(* Writer.ensureChannel up to its call of WriteChannel: take the mutex, look
   the key up; a hit returns the cached ID (and the deferred Unlock runs), a
   miss allocates an ID and enters mcap.Writer.WriteChannel with mu held *)
EnsureChannel(p) ==
    /\ pc[p] = "ensureChannel"
    /\ MuFree
    /\ LET key == KeyOf(ds[p]) IN
       IF Cached(key)
       THEN /\ channelID' = [channelID EXCEPT ![p] = channels[key]]
            /\ resolved' = resolved \cup {<<key, channels[key]>>}
            /\ pc' = [pc EXCEPT ![p] = "marshal"]
            /\ UNCHANGED <<mu, nextChanID, chID, allocated>>
       ELSE /\ mu' = p
            /\ chID' = [chID EXCEPT ![p] = AllocChanID]
            /\ nextChanID' = (nextChanID + 1) % IdModulus
            /\ allocated' = Append(allocated, AllocChanID)
            /\ pc' = [pc EXCEPT ![p] = "inWriteChannel"]
            /\ UNCHANGED <<channelID, resolved>>
    /\ UNCHANGED <<ver, channels, closed, records, ds, msg, ret, afterClose, calls,
                   closeCalled, failedKeys, dvars, xvars, cvars,
                   kvars, rvars>>

(* mcap.Writer.WriteChannel returns, and ensureChannel with it: on success the
   record is in the stream and the key is cached; on failure ensureChannel
   returns (0, err) and WriteDecodedSignal returns the error *)
WriteChannelReturn(p, ok) ==
    /\ pc[p] = "inWriteChannel"
    /\ mu' = NoOwner
    /\ LET key == KeyOf(ds[p]) IN
       IF ok
       THEN /\ records' = Append(records, ChannelRecord(chID[p], ds[p]))
            /\ channels' = (key :> chID[p]) @@ channels
            /\ channelID' = [channelID EXCEPT ![p] = chID[p]]
            /\ resolved' = resolved \cup {<<key, chID[p]>>}
            /\ pc' = [pc EXCEPT ![p] = "marshal"]
            /\ UNCHANGED <<ret, failedKeys>>
       ELSE /\ channelID' = [channelID EXCEPT ![p] = 0]
            /\ failedKeys' = failedKeys \cup {key}
            /\ ret' = [ret EXCEPT ![p] = "err"]
            /\ pc' = [pc EXCEPT ![p] = "idle"]
            /\ UNCHANGED <<records, channels, resolved>>
    /\ chID' = [chID EXCEPT ![p] = 0]
    /\ ds' = [ds EXCEPT ![p] = IF ok THEN @ ELSE Nil]
    /\ UNCHANGED <<ver, nextChanID, closed, msg, afterClose, calls,
                   closeCalled, allocated, dvars, xvars, cvars,
                   kvars, rvars>>

(* proto.Marshal, then the call of mcap.Writer.WriteMessage (no mutex held);
   ds and channelID are dead once the mcap.Message is built *)
MarshalAndWrite(p, marshalled, now) ==
    /\ pc[p] = "marshal"
    /\ IF marshalled
       THEN /\ msg' = [msg EXCEPT ![p] = MessageRecord(channelID[p], ds[p], now)]
            /\ pc' = [pc EXCEPT ![p] = "inWriteMessage"]
            /\ ret' = ret
       ELSE /\ ret' = [ret EXCEPT ![p] = "err"]
            /\ pc' = [pc EXCEPT ![p] = "idle"]
            /\ msg' = msg
    /\ ds' = [ds EXCEPT ![p] = Nil]
    /\ channelID' = [channelID EXCEPT ![p] = 0]
    /\ UNCHANGED <<ver, mu, nextChanID, channels, closed, records, chID,
                   afterClose, calls, closeCalled, allocated, resolved,
                   failedKeys, dvars, xvars, cvars,
                   kvars, rvars>>

(* mcap.Writer.WriteMessage returns, and WriteDecodedSignal with it *)
WriteMessageReturn(p, ok) ==
    /\ pc[p] = "inWriteMessage"
    /\ IF ok
       THEN /\ records' = Append(records, msg[p])
            /\ ret' = [ret EXCEPT ![p] = "ok"]
       ELSE /\ records' = records
            /\ ret' = [ret EXCEPT ![p] = "err"]
    /\ pc' = [pc EXCEPT ![p] = "idle"]
    /\ msg' = [msg EXCEPT ![p] = Nil]
    /\ UNCHANGED <<ver, mu, nextChanID, channels, closed, ds, chID, channelID,
                   afterClose, calls, closeCalled, allocated, resolved, failedKeys,
                   dvars, xvars, cvars,
                   kvars, rvars>>

(* Writer.Close is called (once per Writer) *)
CloseCall(p) ==
    /\ pc[p] = "idle"
    /\ ~closeCalled
    /\ closeCalled' = TRUE
    /\ pc' = [pc EXCEPT ![p] = "close"]
    /\ UNCHANGED <<ver, mu, nextChanID, channels, closed, records, ds, chID,
                   channelID, msg, ret, afterClose, calls, allocated, resolved,
                   failedKeys, dvars, xvars, cvars,
                   kvars, rvars>>

(* Writer.Close takes the mutex and enters mcap.Writer.Close *)
CloseLock(p) ==
    /\ pc[p] = "close"
    /\ MuFree
    /\ mu' = p
    /\ pc' = [pc EXCEPT ![p] = "inClose"]
    /\ UNCHANGED <<ver, nextChanID, channels, closed, records, ds, chID, channelID,
                   msg, ret, afterClose, calls, closeCalled, allocated, resolved,
                   failedKeys, dvars, xvars, cvars,
                   kvars, rvars>>

(* mcap.Writer.Close returns, the deferred Unlock runs *)
CloseReturn(p) ==
    /\ pc[p] = "inClose"
    /\ closed' = TRUE
    /\ mu' = NoOwner
    /\ pc' = [pc EXCEPT ![p] = "idle"]
    /\ UNCHANGED <<ver, nextChanID, channels, records, ds, chID, channelID, msg,
                   ret, afterClose, calls, closeCalled, allocated, resolved,
                   failedKeys, dvars, xvars, cvars,
                   kvars, rvars>>

Next ==
    \E p \in Procs :
        \/ \E d \in DecodedSignals \cup {Nil} : Call(p, d)
        \/ EnsureChannel(p)
        \/ \E ok \in BOOLEAN : WriteChannelReturn(p, ok)
        \/ \E marshalled \in BOOLEAN, now \in WallClock : MarshalAndWrite(p, marshalled, now)
        \/ \E ok \in BOOLEAN : WriteMessageReturn(p, ok)
        \/ CloseCall(p)
        \/ CloseLock(p)
        \/ CloseReturn(p)

Spec == Init /\ [][Next]_vars

(* The Writer of part_001 close to the end of the uint16 counter: the first
   WriteDecodedSignal call registered Engine/Speed as channel 1 and its
   WriteMessage failed; every later call was for Brake/Temp and its
   WriteChannel failed, each one consuming an ID, until 65534 IDs had been
   allocated.  calls and allocated count from this state on. *)
InitWrap ==
    LET SpeedSignal == CHOOSE d \in DecodedSignals : d.Name = "Speed"
        TempSignal == CHOOSE d \in DecodedSignals : d.Name = "Temp"
    IN
    /\ ver = "part_001"
    /\ mu = NoOwner
    /\ nextChanID = IdModulus - 1
    /\ channels = (KeyOf(SpeedSignal) :> InitialChanID)
    /\ closed = FALSE
    /\ records = <<ChannelRecord(InitialChanID, SpeedSignal)>>
    /\ pc = [p \in Procs |-> "idle"]
    /\ ds = [p \in Procs |-> Nil]
    /\ chID = [p \in Procs |-> 0]
    /\ channelID = [p \in Procs |-> 0]
    /\ msg = [p \in Procs |-> Nil]
    /\ ret \in [Procs -> {"none", "err"}]
    /\ afterClose = [p \in Procs |-> FALSE]
    /\ calls = 0
    /\ closeCalled = FALSE
    /\ allocated = << >>
    /\ resolved = {<<KeyOf(SpeedSignal), InitialChanID>>}
    /\ failedKeys = {KeyOf(TempSignal)}
    /\ db = << >>
    /\ dec = Nil
    /\ pb = Nil
    /\ ExtractorIdle
    /\ ConverterIdle
    /\ CompilerIdle
    /\ ReaderIdle

SpecWrap == InitWrap /\ [][Next]_vars

----------------------------------------------------------------------------
(* dbc.Decoder: descriptors, frames and the library's field readers.  Values
   of type float64 (scale, offset, min, max, physical) are held in tenths.
   The descriptors of the model are all little-endian. *)
DataLen == 8

SignalDesc(name, start, length, isSigned, isFloat, isMux, isMuxed, muxValue, scale, offset) ==
    [Name |-> name, Start |-> start, Length |-> length, IsSigned |-> isSigned,
     IsFloat |-> isFloat, IsMultiplexer |-> isMux,
     IsMultiplexed |-> isMuxed, MultiplexerValue |-> muxValue,
     Scale |-> scale, Offset |-> offset, Min |-> 0, Max |-> 0,
     ValueDescriptions |-> IF isMux THEN {<<1, "one">>} ELSE {}]

ModeSignal == SignalDesc("Mode", 0, 2, FALSE, FALSE, TRUE, FALSE, 0, 0, 0)

(* message 0x100: an optional multiplexer switch, a plain signal whose length
   and flags vary, and three multiplexed signals *)
EngineMessage(withSwitch, probeLength, probeSigned, probeFloat) ==
    [ID |-> 256, Name |-> "Engine", Length |-> 1, IsExtended |-> FALSE,
     Signals |->
        (IF withSwitch THEN <<ModeSignal>> ELSE << >>) \o
        << SignalDesc("Probe", 2, probeLength, probeSigned, probeFloat,
                      FALSE, FALSE, 0, 10, 0),
           SignalDesc("A", 5, 2, FALSE, FALSE, FALSE, TRUE, 0, 0, 0),
           SignalDesc("B", 5, 1, FALSE, FALSE, FALSE, TRUE, 1, 0, 0),
           SignalDesc("C", 6, 2, TRUE, FALSE, FALSE, TRUE, 1, 1, 400) >>]

(* message 0x200, extended, two bytes *)
BrakeMessage ==
    [ID |-> 512, Name |-> "Brake", Length |-> 2, IsExtended |-> TRUE,
     Signals |-> << SignalDesc("P", 8, 8, TRUE, FALSE, FALSE, FALSE, 0, 1, 400) >>]

Databases ==
    { <<EngineMessage(sw, len, sg, fl), BrakeMessage>> :
        sw \in BOOLEAN, len \in {1, 3}, sg \in BOOLEAN, fl \in BOOLEAN }

FrameData ==
    { <<b0, b1, 0, 0, 0, 0, 0, 0>> : b0 \in {0, 37, 98, 255}, b1 \in {0, 200} }

Frames ==
    [ID : {256, 257, 512}, Length : {1, 2}, IsExtended : BOOLEAN,
     IsRemote : BOOLEAN, Data : FrameData, Timestamp : {Stamp(1, 5)}]

(* descriptor.Database.Message(id): the message with that ID, or none *)
MessageByID(id) ==
    LET hits == { i \in DOMAIN db : db[i].ID = id }
    IN  IF hits = {} THEN Nil
        ELSE db[CHOOSE i \in hits : \A j \in hits : i <= j]

Pow2(n) == 2 ^ n

(* can.Data.Bit(pos) *)
Bit(data, pos) ==
    IF pos \div 8 < DataLen THEN (data[(pos \div 8) + 1] \div Pow2(pos % 8)) % 2 ELSE 0

RECURSIVE BitsLE(_, _, _)
BitsLE(data, start, length) ==
    IF length = 0 THEN 0
    ELSE Bit(data, start) + 2 * BitsLE(data, start + 1, length - 1)

(* descriptor.Signal.UnmarshalUnsigned / UnmarshalSigned / UnmarshalBool /
   UnmarshalFloat on a little-endian signal *)
UnmarshalUnsigned(s, data) == BitsLE(data, s.Start, s.Length)

UnmarshalSigned(s, data) ==
    LET u == UnmarshalUnsigned(s, data)
    IN  IF u >= Pow2(s.Length - 1) THEN u - Pow2(s.Length) ELSE u

UnmarshalBool(s, data) == Bit(data, s.Start) = 1

UnmarshalFloat(s, data) == [bits |-> UnmarshalUnsigned(s, data)]

(* descriptor.Signal.UnmarshalValueDescription *)
UnmarshalValueDescription(s, data) ==
    LET v == IF s.IsSigned THEN UnmarshalSigned(s, data) ELSE UnmarshalUnsigned(s, data)
        hits == { e \in s.ValueDescriptions : e[1] = v }
    IN  IF hits = {} THEN "" ELSE (CHOOSE e \in hits : TRUE)[2]

(* a variant choice that tests the float flag before the bit length *)
RawOfFloatFirst(s, data) ==
    IF s.IsFloat THEN [kind |-> "float64", val |-> UnmarshalFloat(s, data)]
    ELSE IF s.Length = 1 THEN [kind |-> "bool", val |-> UnmarshalBool(s, data)]
    ELSE IF s.IsSigned THEN [kind |-> "int64", val |-> UnmarshalSigned(s, data)]
    ELSE [kind |-> "uint64", val |-> UnmarshalUnsigned(s, data)]

(* decodeSignal: the switch choosing the raw value's dynamic type *)
RawOf(s, data) ==
    IF s.Length = 1 THEN [kind |-> "bool", val |-> UnmarshalBool(s, data)]
    ELSE IF s.IsFloat THEN [kind |-> "float64", val |-> UnmarshalFloat(s, data)]
    ELSE IF s.IsSigned THEN [kind |-> "int64", val |-> UnmarshalSigned(s, data)]
    ELSE [kind |-> "uint64", val |-> UnmarshalUnsigned(s, data)]

(* a non-nil pointer to v *)
Ptr(v) == [val |-> v]

(* a conversion that drops the offset *)
ToPhysicalNoOffset(s, v) == v * s.Scale

(* descriptor.Signal.ToPhysical, in tenths; Scale and Offset are in tenths,
   so 10 * (v * Scale/10 + Offset/10) = v * Scale + Offset.  The library
   clamps the result to [Min, Max] when either of them is set. *)
ToPhysical(s, v) ==
    LET result == v * s.Scale + s.Offset IN
    IF s.Min # 0 \/ s.Max # 0
    THEN IF result > s.Max THEN (IF s.Max < s.Min THEN s.Min ELSE s.Max)
         ELSE IF result < s.Min THEN s.Min ELSE result
    ELSE result

(* a decodeSignal that looks at scale and offset only *)
PhysicalOfScaleOffsetOnly(s, raw) ==
    IF ~s.IsFloat /\ (s.Scale # 0 \/ s.Offset # 0)
          /\ raw.kind \in {"int64", "uint64"}
    THEN Ptr(ToPhysical(s, raw.val))
    ELSE Nil

(* decodeSignal: the physical value, attached for an integer raw value of a
   non-float signal with some conversion parameter set *)
PhysicalOf(s, raw) ==
    IF ~s.IsFloat /\ (s.Scale # 0 \/ s.Offset # 0 \/ s.Min # 0 \/ s.Max # 0)
          /\ raw.kind \in {"int64", "uint64"}
    THEN Ptr(ToPhysical(s, raw.val))
    ELSE Nil

decodeSignal(s, f) ==
    [Raw |-> RawOf(s, f.Data),
     Physical |-> PhysicalOf(s, RawOf(s, f.Data)),
     Description |-> UnmarshalValueDescription(s, f.Data),
     Signal |-> s,
     Timestamp |-> f.Timestamp]

(* a shape check that lets remote frames through *)
ShapeMismatchNoRemote(f, message) ==
    f.Length # message.Length \/ f.IsExtended # message.IsExtended

(* Decode: the frame-shape test *)
ShapeMismatch(f, message) ==
    f.Length # message.Length \/ f.IsExtended # message.IsExtended \/ f.IsRemote

(* Decode, first loop: the non-multiplexed signals and the switch, in
   descriptor order; st is <<signalsMap, mux, muxVal>> *)
RECURSIVE PlainPass(_, _, _, _)
PlainPass(sigs, i, f, st) ==
    IF i > Len(sigs) THEN st
    ELSE LET s == sigs[i] IN
         IF s.IsMultiplexed THEN PlainPass(sigs, i + 1, f, st)
         ELSE IF s.IsMultiplexer
              THEN PlainPass(sigs, i + 1, f,
                       [map |-> (s.Name :> decodeSignal(s, f)) @@ st.map,
                        mux |-> s, muxVal |-> UnmarshalUnsigned(s, f.Data)])
              ELSE PlainPass(sigs, i + 1, f,
                       [st EXCEPT !.map = (s.Name :> decodeSignal(s, f)) @@ st.map])

(* a multiplexer test that accepts every multiplexed signal *)
MuxSelectedAlways(s, muxVal) == TRUE

(* Decode, second loop: muxVal == uint64(s.MultiplexerValue) *)
MuxSelected(s, muxVal) == muxVal = s.MultiplexerValue

RECURSIVE MuxPass(_, _, _, _, _)
MuxPass(sigs, i, f, muxVal, map) ==
    IF i > Len(sigs) THEN map
    ELSE LET s == sigs[i] IN
         IF ~s.IsMultiplexed THEN MuxPass(sigs, i + 1, f, muxVal, map)
         ELSE IF MuxSelected(s, muxVal)
              THEN MuxPass(sigs, i + 1, f, muxVal,
                           (s.Name :> decodeSignal(s, f)) @@ map)
              ELSE MuxPass(sigs, i + 1, f, muxVal, map)

(* Decoder.Decode: [signals, err]; signals is Nil when err is set *)
DecodeResult(f) ==
    LET message == MessageByID(f.ID) IN
    IF message = Nil
    THEN [signals |-> Nil, err |-> "unknown message id"]
    ELSE IF ShapeMismatch(f, message)
    THEN [signals |-> Nil, err |-> "frame shape mismatch"]
    ELSE LET st == PlainPass(message.Signals, 1, f,
                             [map |-> << >>, mux |-> Nil, muxVal |-> 0])
         IN  [signals |-> IF st.mux # Nil
                          THEN MuxPass(message.Signals, 1, f, st.muxVal, st.map)
                          ELSE st.map,
              err |-> ""]

(* converter.run: the raw oneof of the DecodedSignal proto; Nil is the
   default branch, which skips the signal *)
RawOneof(raw) ==
    CASE raw.kind = "bool"    -> [RawB |-> raw.val]
      [] raw.kind = "int64"   -> [RawS |-> raw.val]
      [] raw.kind = "uint64"  -> [RawU |-> raw.val]
      [] raw.kind = "float64" -> [RawF |-> raw.val]
      [] raw.kind = "bytes"   -> [RawBytes |-> raw.val]
      [] OTHER -> Nil

(* construction of the Compiler: a database is loaded *)
InitDecode ==
    /\ ver = "part_001"
    /\ mu = NoOwner
    /\ nextChanID = InitialChanID
    /\ channels = << >>
    /\ closed = FALSE
    /\ records = << >>
    /\ pc = [p \in Procs |-> "idle"]
    /\ ds = [p \in Procs |-> Nil]
    /\ chID = [p \in Procs |-> 0]
    /\ channelID = [p \in Procs |-> 0]
    /\ msg = [p \in Procs |-> Nil]
    /\ ret = [p \in Procs |-> "none"]
    /\ afterClose = [p \in Procs |-> FALSE]
    /\ calls = 0
    /\ closeCalled = FALSE
    /\ allocated = << >>
    /\ resolved = {}
    /\ failedKeys = {}
    /\ db \in Databases
    /\ dec = Nil
    /\ pb = Nil
    /\ ExtractorIdle
    /\ ConverterIdle
    /\ CompilerIdle
    /\ ReaderIdle

(* Decoder.Decode(f) *)
Decode(f) ==
    /\ dec' = [frame |-> f, signals |-> DecodeResult(f).signals,
               err |-> DecodeResult(f).err]
    /\ pb' = Nil
    /\ UNCHANGED <<kvars, rvars, wvars, xvars, cvars, db>>

(* converter.run, body of the loop over decodedSignals: the DecodedSignal
   proto of one signal of the last decoded frame *)
BuildProto(sigName) ==
    /\ dec # Nil
    /\ dec.err = ""
    /\ sigName \in DOMAIN dec.signals
    /\ LET sig == dec.signals[sigName]
           msgDesc == MessageByID(dec.frame.ID)
       IN  pb' = [MessageName |-> IF msgDesc # Nil THEN msgDesc.Name
                                  ELSE HexID(dec.frame.ID),
                  Name |-> sigName,
                  Timestamp |-> sig.Timestamp,
                  CanId |-> dec.frame.ID,
                  IsExtended |-> dec.frame.IsExtended,
                  Unit |-> "",
                  Physical |-> sig.Physical,
                  Description |-> sig.Description,
                  Raw |-> RawOneof(sig.Raw)]
    /\ UNCHANGED <<kvars, rvars, wvars, xvars, cvars, db, dec>>

SignalNames == {"Mode", "Probe", "A", "B", "C", "P"}

NextDecode ==
    \/ \E f \in Frames : Decode(f)
    \/ \E n \in SignalNames : BuildProto(n)

SpecDecode == InitDecode /\ [][NextDecode]_vars

(* a database of one message 0x100 with one signal, whose conversion
   parameters (in tenths), length and flags vary *)
ScaledSignal(length, isSigned, isFloat, scale, offset, min, max) ==
    [SignalDesc("Probe", 2, length, isSigned, isFloat, FALSE, FALSE, 0, scale, offset)
        EXCEPT !.Min = min, !.Max = max]

ScaledMessage(s) ==
    [ID |-> 256, Name |-> "Engine", Length |-> 1, IsExtended |-> FALSE, Signals |-> <<s>>]

Ranges == { <<0, 0>>, <<0, 500>>, <<-20, 0>> }

ScaledDatabases ==
    { <<ScaledMessage(ScaledSignal(len, sg, fl, sc, off, r[1], r[2]))>> :
        len \in {1, 3}, sg \in BOOLEAN, fl \in BOOLEAN,
        sc \in {0, 1, 10}, off \in {0, 400}, r \in Ranges }

InitPhysical ==
    /\ WriterIdle
    /\ ExtractorIdle
    /\ ConverterIdle
    /\ CompilerIdle
    /\ ReaderIdle
    /\ db \in ScaledDatabases
    /\ dec = Nil
    /\ pb = Nil

SpecPhysical == InitPhysical /\ [][NextDecode]_vars

----------------------------------------------------------------------------
(* package can (src/pkg/can/decoder.go): the bit extractor.  A uint64 is held
   as the set of the indices of its 1 bits, so that all 64 bits are exact. *)
WordBits == 64

(* (b >> bitIndex) & 1 of a byte *)
ByteBit(b, bitIndex) == (b \div Pow2(bitIndex)) % 2

(* uint64(1) << k: the shift of a uint64 by 64 or more is 0 *)
ShiftedOne(k) == IF k < WordBits THEN {k} ELSE {}

(* a bit reader that counts from the most significant bit of the byte *)
IntelBitReversed(data, byteIndex, bitIndex) == ByteBit(data[byteIndex + 1], 7 - bitIndex)

(* bit := (data[byteIndex] >> bitIndex) & 1 in extractIntelSignal *)
IntelBit(data, byteIndex, bitIndex) == ByteBit(data[byteIndex + 1], bitIndex)

(* extractIntelSignal: the body of the loop; st holds i, currentBit, result *)
IntelStep(data, startBit, st) ==
    LET bitPosition == startBit + st.i
        byteIndex == bitPosition \div 8
        bitIndex == bitPosition % 8
    IN  [i |-> st.i + 1,
         currentBit |-> st.currentBit + 1,
         result |-> IF IntelBit(data, byteIndex, bitIndex) = 1
                    THEN st.result \cup ShiftedOne(st.currentBit)
                    ELSE st.result]

(* extractIntelSignal: the loop, which ends at i = bitLength or breaks at the
   first byte index outside the buffer *)
RECURSIVE IntelLoop(_, _, _, _)
IntelLoop(data, startBit, bitLength, st) ==
    IF st.i >= bitLength \/ (startBit + st.i) \div 8 >= Len(data) THEN st.result
    ELSE IntelLoop(data, startBit, bitLength, IntelStep(data, startBit, st))

extractIntelSignal(data, startBit, bitLength) ==
    IntelLoop(data, startBit, bitLength, [i |-> 0, currentBit |-> 0, result |-> {}])

(* extractMotorolaSignal, lsb < 0: the body of the loop over the bits; st
   holds i and result *)
MotorolaSpanningStep(data, msb, bitLength, st) ==
    LET bitPos == msb - st.i
        byteIndex == bitPos \div 8
        bitIndex == 7 - (bitPos % 8)
    IN  [i |-> st.i + 1,
         result |-> IF bitPos < 0 \/ byteIndex >= Len(data) THEN st.result
                    ELSE IF ByteBit(data[byteIndex + 1], bitIndex) = 1
                         THEN st.result \cup ShiftedOne(bitLength - 1 - st.i)
                         ELSE st.result]

RECURSIVE MotorolaSpanningLoop(_, _, _, _)
MotorolaSpanningLoop(data, msb, bitLength, st) ==
    IF st.i >= bitLength THEN st.result
    ELSE MotorolaSpanningLoop(data, msb, bitLength, MotorolaSpanningStep(data, msb, bitLength, st))

MotorolaSpanning(data, msb, bitLength) ==
    MotorolaSpanningLoop(data, msb, bitLength, [i |-> 0, result |-> {}])

(* extractMotorolaSignal, lsb >= 0: the inner loop over bitIdx = 7..0 *)
RECURSIVE WithinBits(_, _, _, _, _, _)
WithinBits(data, msb, lsb, byteIdx, bitIdx, result) ==
    IF bitIdx < 0 THEN result
    ELSE LET bitPos == byteIdx * 8 + (7 - bitIdx)
         IN  WithinBits(data, msb, lsb, byteIdx, bitIdx - 1,
                IF bitPos > msb \/ bitPos < lsb THEN result
                ELSE IF ByteBit(data[byteIdx + 1], bitIdx) = 1
                     THEN result \cup ShiftedOne(bitPos - lsb)
                     ELSE result)

(* extractMotorolaSignal, lsb >= 0: the outer loop, byteIdx down to endByte *)
RECURSIVE WithinBytes(_, _, _, _, _, _)
WithinBytes(data, msb, lsb, byteIdx, endByte, result) ==
    IF ~(byteIdx >= endByte /\ byteIdx >= 0) THEN result
    ELSE WithinBytes(data, msb, lsb, byteIdx - 1, endByte,
            IF byteIdx >= Len(data) THEN result
            ELSE WithinBits(data, msb, lsb, byteIdx, 7, result))

(* a within-boundaries branch that reads the start byte only *)
MotorolaWithinStartByte(data, msb, lsb) == WithinBytes(data, msb, lsb, msb \div 8, msb \div 8, {})

MotorolaWithin(data, msb, lsb) == WithinBytes(data, msb, lsb, msb \div 8, lsb \div 8, {})

extractMotorolaSignal(data, startBit, bitLength) ==
    LET msb == startBit
        lsb == msb - bitLength + 1
    IN  IF lsb < 0 THEN MotorolaSpanning(data, msb, bitLength)
        ELSE MotorolaWithin(data, msb, lsb)

(* a sign extension that leaves bit bitLength clear *)
SignExtendedFromNext(value, bitLength) == value \cup ((bitLength + 1)..(WordBits - 1))

(* value |= ^mask with mask = (1 << bitLength) - 1 *)
SignExtended(value, bitLength) == value \cup (bitLength..(WordBits - 1))

(* extractSignalValue: [value, err] *)
extractSignalValue(data, signal) ==
    IF Len(data) = 0 THEN [value |-> {}, err |-> "empty data"]
    ELSE LET value == IF signal.ByteOrder = 1
                      THEN extractIntelSignal(data, signal.StartBit, signal.BitLength)
                      ELSE extractMotorolaSignal(data, signal.StartBit, signal.BitLength)
         IN  [value |-> IF signal.IsSigned /\ signal.BitLength < 64
                           /\ (signal.BitLength - 1) \in value
                        THEN SignExtended(value, signal.BitLength)
                        ELSE value,
              err |-> ""]

(* the dictionary: message 0x100 with the signal under test *)
DbcMessage(id) ==
    IF id = 256 THEN [ID |-> 256, Name |-> "Engine", Size |-> 8, Signals |-> <<xsig>>]
    ELSE Nil

(* float64 values of integer conversions are held as sign and magnitude, the
   magnitude being the set of its 1 bits; two conversions of the same sign
   and magnitude give the same float64, and a negative and a positive one of
   non-zero magnitude give different ones *)
Float64OfUint64(w) == [neg |-> FALSE, mag |-> w]

(* the magnitude of a negative int64: the two's complement of the word *)
TwosNegate(w) ==
    LET c == (0..(WordBits - 1)) \ w
        k == CHOOSE i \in 0..(WordBits - 1) : i \notin c /\ \A j \in 0..(i - 1) : j \in c
    IN  IF c = 0..(WordBits - 1) THEN {}
        ELSE (c \ (0..(k - 1))) \cup {k}

(* float64(int64(w)) *)
Float64OfInt64(w) ==
    IF (WordBits - 1) \in w THEN [neg |-> TRUE, mag |-> TwosNegate(w)]
    ELSE [neg |-> FALSE, mag |-> w]

(* value*scale + offset, held by its operands *)
ScaleOffset(value, scale, offset) == [value |-> value, scale |-> scale, offset |-> offset]

(* ApplyScaleOffset: a signed field with its sign bit set is converted
   through int64(rawValue | ^mask), anything else through float64(rawValue);
   1 << 64 is 0 in Go, so mask is all ones when bitLength is 64 *)
ApplyScaleOffset(rawValue, scale, offset, isSigned, bitLength) ==
    LET notMask == bitLength..(WordBits - 1)
        value == IF isSigned /\ (bitLength - 1) \in rawValue
                 THEN Float64OfInt64(rawValue \cup notMask)
                 ELSE Float64OfUint64(rawValue)
    IN  ScaleOffset(value, scale, offset)

(* Decoder.DecodeFrame, the loop over message.Signals from index i on:
   physicalValue := float64(rawValue)*signal.Scale + signal.Offset *)
RECURSIVE DecodeSignals(_, _, _, _)
DecodeSignals(signals, i, data, map) ==
    IF i > Len(signals) THEN [Signals |-> map, err |-> ""]
    ELSE LET signal == signals[i]
             r == extractSignalValue(data, signal)
         IN  IF r.err # ""
             THEN [Signals |-> Nil, err |-> "failed to extract signal " \o signal.Name]
             ELSE DecodeSignals(signals, i + 1, data,
                    (signal.Name :> [Name |-> signal.Name, RawValue |-> r.value,
                                     PhysicalValue |->
                                         ScaleOffset(Float64OfUint64(r.value),
                                                     signal.Scale, signal.Offset),
                                     Unit |-> signal.Unit]) @@ map)

DecodeFrameResult(f) ==
    LET message == DbcMessage(f.CanID) IN
    IF message = Nil THEN [Signals |-> Nil, err |-> "unknown CAN ID"]
    ELSE DecodeSignals(message.Signals, 1, f.Data, << >>)

(* inputs: buffers of 0, 1, 2, 3 and 8 bytes *)
Bytes == {0, 45, 198, 255}

Buffers ==
    { << >> } \cup { <<b0>> : b0 \in Bytes } \cup { <<b0, b1>> : b0 \in Bytes, b1 \in Bytes }
    \cup { <<b0, b1, 198>> : b0 \in Bytes, b1 \in Bytes }
    \cup { <<b0, b1, 0, 0, 0, 0, 0, b7>> : b0 \in Bytes, b1 \in Bytes, b7 \in {0, 255} }

DbcSignal(startBit, bitLength, byteOrder, isSigned) ==
    [Name |-> "S", StartBit |-> startBit, BitLength |-> bitLength, ByteOrder |-> byteOrder,
     IsSigned |-> isSigned, Scale |-> 10, Offset |-> 0, Unit |-> ""]

LayoutSignals ==
    { DbcSignal(st, n, bo, sg) :
        st \in {0, 3, 7, 12, 15}, n \in {1, 4, 8, 12, 16, 64}, bo \in {0, 1}, sg \in BOOLEAN }

(* inputs of the round trip: a value written as an n-bit two's-complement
   field at an Intel signal's position in an 8-byte buffer *)
MaxMagnitude == 8
FieldValues == (-MaxMagnitude)..(MaxMagnitude - 1)

RECURSIVE SumPow2(_)
SumPow2(S) == IF S = {} THEN 0
              ELSE LET i == CHOOSE x \in S : TRUE IN Pow2(i) + SumPow2(S \ {i})

Representable(v, n) == n > 30 \/ (-Pow2(n - 1) <= v /\ v < Pow2(n - 1))

(* the n-bit two's-complement pattern of v, for |v| below 2^30 *)
PatternOf(v, n) ==
    IF v >= 0 THEN { i \in 0..(n - 1) : i < 30 /\ ByteBit(v, i) = 1 }
    ELSE { i \in 0..(n - 1) : i >= 30 \/ ByteBit(-v - 1, i) = 0 }

BufferOfBits(B) == [k \in 1..DataLen |-> SumPow2({ j \in 0..7 : 8 * (k - 1) + j \in B })]

WriteIntel(v, signal) ==
    BufferOfBits({ signal.StartBit + i : i \in PatternOf(v, signal.BitLength) })

RoundTripSignals == { DbcSignal(st, n, 1, TRUE) : st \in {0, 1}, n \in 2..(WordBits - 1) }

InitExtract ==
    /\ WriterIdle
    /\ ConverterIdle
    /\ CompilerIdle
    /\ ReaderIdle
    /\ db = << >>
    /\ dec = Nil
    /\ pb = Nil
    /\ \/ xsig \in LayoutSignals /\ xdata \in Buffers
       \/ /\ xsig \in RoundTripSignals
          /\ xdata \in { WriteIntel(v, xsig) :
                            v \in { w \in FieldValues : Representable(w, xsig.BitLength) } }
    /\ xres = Nil

ExtractIntel ==
    /\ xres' = [fn |-> "extractIntelSignal", err |-> "",
                value |-> extractIntelSignal(xdata, xsig.StartBit, xsig.BitLength)]
    /\ UNCHANGED <<kvars, rvars, wvars, dvars, cvars, xdata, xsig>>

ExtractMotorola ==
    /\ xres' = [fn |-> "extractMotorolaSignal", err |-> "",
                value |-> extractMotorolaSignal(xdata, xsig.StartBit, xsig.BitLength)]
    /\ UNCHANGED <<kvars, rvars, wvars, dvars, cvars, xdata, xsig>>

ExtractSignalValue ==
    /\ xres' = [fn |-> "extractSignalValue",
                value |-> extractSignalValue(xdata, xsig).value,
                err |-> extractSignalValue(xdata, xsig).err]
    /\ UNCHANGED <<kvars, rvars, wvars, dvars, cvars, xdata, xsig>>

(* Decoder.DecodeFrame on a frame carrying the buffer *)
DecodeFrame(canID) ==
    /\ LET r == DecodeFrameResult([CanID |-> canID, Data |-> xdata, TimestampNs |-> 0])
       IN  xres' = [fn |-> "DecodeFrame", CanID |-> canID,
                    Signals |-> r.Signals, err |-> r.err]
    /\ UNCHANGED <<kvars, rvars, wvars, dvars, cvars, xdata, xsig>>

NextExtract ==
    \/ ExtractIntel
    \/ ExtractMotorola
    \/ ExtractSignalValue
    \/ \E canID \in {256, 257} : DecodeFrame(canID)

SpecExtract == InitExtract /\ [][NextExtract]_vars

----------------------------------------------------------------------------
(* converter.run (src/unnamed/part_007, the revision that writes
   DecodedSignal records): the frame loop.  The reader's stream, the
   cancellation of ctx and the outcome of each mw.WriteDecodedSignal call are
   inputs. *)
MaxFrames == 3

ConvDatabase == <<EngineMessage(TRUE, 3, FALSE, FALSE), BrakeMessage>>

ConvFrame(id, length) ==
    [ID |-> id, Length |-> length, IsExtended |-> FALSE, IsRemote |-> FALSE,
     Data |-> <<0, 0, 0, 0, 0, 0, 0, 0>>, Timestamp |-> Stamp(1, 5)]

(* a frame of message 0x100, a frame of the unknown identifier 0x101, and a
   frame of 0x100 with the wrong length *)
ConvFrames == { ConvFrame(256, 1), ConvFrame(257, 1), ConvFrame(256, 2) }

Streams == UNION { [1..n -> ConvFrames] : n \in 0..MaxFrames }

InitConvert ==
    /\ WriterIdle
    /\ ExtractorIdle
    /\ CompilerIdle
    /\ ReaderIdle
    /\ db = ConvDatabase
    /\ dec = Nil
    /\ pb = Nil
    /\ stream \in Streams
    /\ cpc = "select"
    /\ frame = Nil
    /\ pending = {}
    /\ msgOk = FALSE
    /\ frameCount = 0
    /\ messageCount = 0
    /\ signalRecords = 0
    /\ ctxDone = FALSE
    /\ runRet = "none"
    /\ framesRead = 0
    /\ framesDecoded = 0
    /\ decodeErrors = 0
    /\ writeErrors = 0
    /\ written = {}
    /\ mwCloseCalls = 0

(* the caller cancels ctx *)
Cancel ==
    /\ ~ctxDone
    /\ cpc # "done"
    /\ ctxDone' = TRUE
    /\ UNCHANGED <<kvars, rvars, wvars, dvars, xvars, stream, cpc, frame, pending, msgOk, frameCount,
                   messageCount, signalRecords, runRet, framesRead, framesDecoded,
                   decodeErrors, writeErrors, written, mwCloseCalls>>

(* a deferred function that closes the Writer twice *)
DeferredCloseTwice(n) == n + 2

(* defer func() { _ = mw.Close() }(): every return of run after NewWriter
   calls mw.Close once *)
DeferredClose(n) == n + 1

(* a select that sees ctx.Done() and goes on to read the next frame *)
OnCancelContinue == [cpc |-> "read", runRet |-> runRet]

(* case <-ctx.Done(): return fmt.Errorf("conversion cancelled: %w", ctx.Err()) *)
OnCancel == [cpc |-> "done", runRet |-> "conversion cancelled"]

(* select { case <-ctx.Done(): return ...; default: }; a return runs the
   deferred mw.Close *)
CheckCancel ==
    /\ cpc = "select"
    /\ IF ctxDone
       THEN /\ cpc' = OnCancel.cpc
            /\ runRet' = OnCancel.runRet
            /\ mwCloseCalls' = IF OnCancel.cpc = "done" THEN DeferredClose(mwCloseCalls)
                                ELSE mwCloseCalls
       ELSE cpc' = "read" /\ UNCHANGED <<runRet, mwCloseCalls>>
    /\ UNCHANGED <<kvars, rvars, wvars, dvars, xvars, stream, frame, pending, msgOk, frameCount,
                   messageCount, signalRecords, ctxDone, framesRead, framesDecoded,
                   decodeErrors, writeErrors, written>>

(* frame, err := reader.ReadFrame(): EOF at the end of the stream breaks the
   loop and run returns nil; another error returns it *)
ReadFrame(readErr) ==
    /\ cpc = "read"
    /\ IF readErr
       THEN /\ cpc' = "done" /\ runRet' = "failed to read frame"
            /\ mwCloseCalls' = DeferredClose(mwCloseCalls)
            /\ UNCHANGED <<stream, frame, framesRead>>
       ELSE IF stream = << >>
       THEN /\ cpc' = "done" /\ runRet' = "nil"
            /\ mwCloseCalls' = DeferredClose(mwCloseCalls)
            /\ UNCHANGED <<stream, frame, framesRead>>
       ELSE /\ frame' = Head(stream)
            /\ stream' = Tail(stream)
            /\ framesRead' = framesRead + 1
            /\ cpc' = "decode"
            /\ UNCHANGED <<runRet, mwCloseCalls>>
    /\ UNCHANGED <<kvars, rvars, wvars, dvars, xvars, pending, msgOk, frameCount, messageCount,
                   signalRecords, ctxDone, framesDecoded, decodeErrors, writeErrors,
                   written>>

(* a loop that gives up at the first frame it cannot decode *)
AfterDecodeErrorReturn(r) == [cpc |-> "done", runRet |-> "failed to decode frame"]

(* if err != nil { continue }: back to the head of the loop, run goes on *)
AfterDecodeError(r) == [cpc |-> "select", runRet |-> runRet]

(* decodedSignals, err := decoder.Decode(frame), and on success
   msgDesc, ok := compiler.Message(frame.ID) *)
DecodeStep ==
    /\ cpc = "decode"
    /\ LET r == DecodeResult(frame) IN
        /\ dec' = [frame |-> frame, signals |-> r.signals, err |-> r.err]
        /\ IF r.err # ""
           THEN /\ cpc' = AfterDecodeError(r).cpc
                /\ runRet' = AfterDecodeError(r).runRet
                /\ mwCloseCalls' = IF AfterDecodeError(r).cpc = "done"
                                    THEN DeferredClose(mwCloseCalls) ELSE mwCloseCalls
                /\ decodeErrors' = decodeErrors + 1
                /\ UNCHANGED <<pending, msgOk, framesDecoded>>
           ELSE /\ cpc' = "signals"
                /\ pending' = DOMAIN r.signals
                /\ msgOk' = (MessageByID(frame.ID) # Nil)
                /\ framesDecoded' = framesDecoded + 1
                /\ UNCHANGED <<runRet, mwCloseCalls, decodeErrors>>
    /\ UNCHANGED <<kvars, rvars, wvars, xvars, db, pb, stream, frame, frameCount, messageCount,
                   signalRecords, ctxDone, framesRead, writeErrors, written>>

(* one iteration of the loop over decodedSignals, in map order: the proto is
   built and handed to mw.WriteDecodedSignal; a raw value of unknown type
   skips the signal, a write error is logged and the loop continues *)
WriteSignal(sigName, ok) ==
    /\ cpc = "signals"
    /\ sigName \in pending
    /\ pending' = pending \ {sigName}
    /\ IF RawOneof(dec.signals[sigName].Raw) = Nil
       THEN UNCHANGED <<signalRecords, writeErrors, written>>
       ELSE IF ~ok
       THEN writeErrors' = writeErrors + 1 /\ UNCHANGED <<signalRecords, written>>
       ELSE /\ signalRecords' = signalRecords + 1
            /\ written' = written \cup {<<framesRead, sigName>>}
            /\ UNCHANGED writeErrors
    /\ UNCHANGED <<kvars, rvars, wvars, dvars, xvars, stream, cpc, frame, msgOk, frameCount,
                   messageCount, ctxDone, runRet, framesRead, framesDecoded,
                   decodeErrors, mwCloseCalls>>

(* after the loop over the signals: frameCount++; if ok { messageCount++ } *)
EndFrame ==
    /\ cpc = "signals"
    /\ pending = {}
    /\ frameCount' = frameCount + 1
    /\ messageCount' = IF msgOk THEN messageCount + 1 ELSE messageCount
    /\ cpc' = "select"
    /\ UNCHANGED <<kvars, rvars, wvars, dvars, xvars, stream, frame, pending, msgOk, signalRecords,
                   ctxDone, runRet, framesRead, framesDecoded, decodeErrors,
                   writeErrors, written, mwCloseCalls>>

NextConvert ==
    \/ Cancel
    \/ CheckCancel
    \/ \E readErr \in BOOLEAN : ReadFrame(readErr)
    \/ DecodeStep
    \/ \E n \in SignalNames, ok \in BOOLEAN : WriteSignal(n, ok)
    \/ EndFrame

SpecConvert == InitConvert /\ [][NextConvert]_vars

----------------------------------------------------------------------------
(* dbc.Compiler: NewCompiler turns the definitions of a parsed DBC file into
   descriptors.  The dictionaries of the model hold node, message, signal
   value type and comment definitions, at most one node, and no message of
   the independent-signals identifier. *)
MaxDefs == 2

SignalDef(name, startBit, size, isMultiplexed, multiplexerSwitch) ==
    [Name |-> name, StartBit |-> startBit, Size |-> size, IsSigned |-> FALSE,
     IsMultiplexerSwitch |-> FALSE, IsMultiplexed |-> isMultiplexed,
     MultiplexerSwitch |-> multiplexerSwitch]

MessageDef(id, name, signals) ==
    [def |-> "MessageDef", MessageID |-> id, Name |-> name, Size |-> 8, Signals |-> signals]

NodesDef(names) == [def |-> "NodesDef", NodeNames |-> names]

SignalValueTypeDef(id, signalName, valueType) ==
    [def |-> "SignalValueTypeDef", MessageID |-> id, SignalName |-> signalName,
     SignalValueType |-> valueType]

CommentDef(objectType, id, signalName, nodeName) ==
    [def |-> "CommentDef", ObjectType |-> objectType, MessageID |-> id,
     SignalName |-> signalName, NodeName |-> nodeName, Comment |-> "text"]

(* collectDescriptors, one definition *)
CollectDef(d, def) ==
    IF def.def = "MessageDef"
    THEN [d EXCEPT !.Messages =
            Append(@, [Name |-> def.Name, ID |-> def.MessageID, Length |-> def.Size,
                       Description |-> "",
                       Signals |-> [i \in DOMAIN def.Signals |->
                           LET signalDef == def.Signals[i] IN
                           [Name |-> signalDef.Name, IsSigned |-> signalDef.IsSigned,
                            IsMultiplexer |-> signalDef.IsMultiplexerSwitch,
                            IsMultiplexed |-> signalDef.IsMultiplexed,
                            MultiplexerValue |-> signalDef.MultiplexerSwitch,
                            Start |-> signalDef.StartBit, Length |-> signalDef.Size,
                            IsFloat |-> FALSE, Description |-> ""]]])]
    ELSE IF def.def = "NodesDef"
    THEN [d EXCEPT !.Nodes =
            @ \o [i \in DOMAIN def.NodeNames |->
                    [Name |-> def.NodeNames[i], Description |-> ""]]]
    ELSE d

(* collectDescriptors: the loop over c.defs from index i on *)
RECURSIVE collectDescriptors(_, _, _)
collectDescriptors(ds0, i, d) ==
    IF i > Len(ds0) THEN d
    ELSE collectDescriptors(ds0, i + 1, CollectDef(d, ds0[i]))

(* descriptor.Database.Message, Signal and Node: the index of the first
   match, 0 when there is none *)
MessageIndex(d, id) ==
    IF \E i \in DOMAIN d.Messages : d.Messages[i].ID = id
    THEN CHOOSE i \in DOMAIN d.Messages :
            /\ d.Messages[i].ID = id
            /\ \A j \in 1..(i - 1) : d.Messages[j].ID # id
    ELSE 0

SignalIndex(d, id, name) ==
    LET m == MessageIndex(d, id) IN
    IF m # 0 /\ \E i \in DOMAIN d.Messages[m].Signals : d.Messages[m].Signals[i].Name = name
    THEN CHOOSE i \in DOMAIN d.Messages[m].Signals :
            /\ d.Messages[m].Signals[i].Name = name
            /\ \A j \in 1..(i - 1) : d.Messages[m].Signals[j].Name # name
    ELSE 0

NodeIndex(d, name) ==
    IF \E i \in DOMAIN d.Nodes : d.Nodes[i].Name = name
    THEN CHOOSE i \in DOMAIN d.Nodes : d.Nodes[i].Name = name
    ELSE 0

(* addMetadata, case *dbc.SignalValueTypeDef; c is [db, errors] *)
AddSignalValueType(c, def) ==
    LET m == MessageIndex(c.db, def.MessageID)
        k == SignalIndex(c.db, def.MessageID, def.SignalName)
    IN  IF k = 0 THEN [c EXCEPT !.errors = Append(@, "no declared signal")]
        ELSE IF def.SignalValueType = "Int"
        THEN [c EXCEPT !.db.Messages[m].Signals[k].IsFloat = FALSE]
        ELSE IF def.SignalValueType = "Float32"
        THEN IF c.db.Messages[m].Signals[k].Length = 32
             THEN [c EXCEPT !.db.Messages[m].Signals[k].IsFloat = TRUE]
             ELSE [c EXCEPT !.errors = Append(@, "incorrect float signal length")]
        ELSE [c EXCEPT !.errors = Append(@, "unsupported signal value type")]

(* addMetadata, case *dbc.CommentDef *)
AddComment(c, def) ==
    IF def.ObjectType = "Message"
    THEN LET m == MessageIndex(c.db, def.MessageID) IN
         IF m = 0 THEN [c EXCEPT !.errors = Append(@, "no declared message")]
         ELSE [c EXCEPT !.db.Messages[m].Description = def.Comment]
    ELSE IF def.ObjectType = "Signal"
    THEN LET m == MessageIndex(c.db, def.MessageID)
             k == SignalIndex(c.db, def.MessageID, def.SignalName)
         IN  IF k = 0 THEN [c EXCEPT !.errors = Append(@, "no declared signal")]
             ELSE [c EXCEPT !.db.Messages[m].Signals[k].Description = def.Comment]
    ELSE IF def.ObjectType = "NetworkNode"
    THEN LET n == NodeIndex(c.db, def.NodeName) IN
         IF n = 0 THEN [c EXCEPT !.errors = Append(@, "no declared node")]
         ELSE [c EXCEPT !.db.Nodes[n].Description = def.Comment]
    ELSE c

(* addMetadata: the loop over c.defs from index i on *)
RECURSIVE addMetadata(_, _, _)
addMetadata(ds0, i, c) ==
    IF i > Len(ds0) THEN c
    ELSE addMetadata(ds0, i + 1,
            IF ds0[i].def = "SignalValueTypeDef" THEN AddSignalValueType(c, ds0[i])
            ELSE IF ds0[i].def = "CommentDef" THEN AddComment(c, ds0[i])
            ELSE c)

(* the less function sortDescriptors hands to sort.Slice for m.Signals *)
SignalLess(a, b) ==
    IF a.MultiplexerValue < b.MultiplexerValue THEN TRUE
    ELSE a.Start < b.Start

(* the less function of the slice sorted: m.Signals, or c.db.Messages by ID *)
SliceLess(kind, a, b) == IF kind = "signals" THEN SignalLess(a, b) ELSE a.ID < b.ID

(* sort.Slice on a slice of at most 12 elements is an insertion sort:
   for i := a + 1; i < b; i++ { for j := i; j > a && less(j, j-1); j-- { swap(j, j-1) } } *)
RECURSIVE InsertionInner(_, _, _)
InsertionInner(kind, s, j) ==
    IF j > 1 /\ SliceLess(kind, s[j], s[j - 1])
    THEN InsertionInner(kind, [s EXCEPT ![j] = s[j - 1], ![j - 1] = s[j]], j - 1)
    ELSE s

RECURSIVE InsertionOuter(_, _, _)
InsertionOuter(kind, s, i) ==
    IF i > Len(s) THEN s
    ELSE InsertionOuter(kind, InsertionInner(kind, s, i), i + 1)

(* sortDescriptors: messages by ID, then each message's signals; the one
   node and the empty value descriptions need no move *)
sortDescriptors(d) ==
    LET sorted == InsertionOuter("messages", d.Messages, 2) IN
    [d EXCEPT !.Messages =
        [i \in DOMAIN sorted |->
            [sorted[i] EXCEPT !.Signals = InsertionOuter("signals", @, 2)]]]

(* the Compiler NewCompiler builds from the parsed definitions *)
Compiled(ds0) ==
    LET collected == collectDescriptors(ds0, 1, [Messages |-> << >>, Nodes |-> << >>])
        c == addMetadata(ds0, 1, [db |-> collected, errors |-> << >>])
    IN  [db |-> sortDescriptors(c.db), errors |-> c.errors]

(* inputs: the signals of message 0x100 in every order, a second message
   before or after it, and up to MaxDefs metadata definitions *)
SignalDefs ==
    { SignalDef("Rpm", 5, 32, FALSE, 0), SignalDef("Gear", 3, 8, TRUE, 1),
      SignalDef("Load", 8, 8, FALSE, 0) }

MessageLists ==
    LET signalLists ==
            { s \in UNION { [1..n -> SignalDefs] : n \in 0..Cardinality(SignalDefs) } :
                \A i, j \in DOMAIN s : i # j => s[i] # s[j] }
    IN  UNION { { <<MessageDef(256, "Engine", s)>>,
                  <<MessageDef(256, "Engine", s), MessageDef(26, "Brake", << >>)>>,
                  <<MessageDef(300, "Body", << >>), MessageDef(256, "Engine", s)>> } :
                s \in signalLists }

MetaDefs ==
    { SignalValueTypeDef(256, "Rpm", "Int"), SignalValueTypeDef(256, "Rpm", "Float32"),
      SignalValueTypeDef(256, "Gear", "Float32"), SignalValueTypeDef(256, "Rpm", "Float64"),
      SignalValueTypeDef(257, "Rpm", "Int"),
      CommentDef("Message", 256, "", ""), CommentDef("Message", 257, "", ""),
      CommentDef("Signal", 256, "Load", ""), CommentDef("Signal", 256, "Zzz", ""),
      CommentDef("NetworkNode", 0, "", "ECU"), CommentDef("NetworkNode", 0, "", "Ghost") }

InitCompile ==
    /\ WriterIdle
    /\ ExtractorIdle
    /\ ConverterIdle
    /\ ReaderIdle
    /\ db = << >>
    /\ dec = Nil
    /\ pb = Nil
    /\ defs \in { <<NodesDef(<<"ECU">>)>> \o m \o x :
                    m \in MessageLists,
                    x \in UNION { [1..n -> MetaDefs] : n \in 0..MaxDefs } }
    /\ comp = Nil

(* NewCompiler(filePath): os.ReadFile, Parse, then the three passes *)
NewCompiler(readOk, parseOk) ==
    /\ comp = Nil
    /\ comp' = IF ~readOk
               THEN [fn |-> "NewCompiler", c |-> Nil, errors |-> << >>,
                     err |-> "failed to read dbc file"]
               ELSE IF ~parseOk
               THEN [fn |-> "NewCompiler", c |-> Nil, errors |-> << >>,
                     err |-> "failed to parse dbc file"]
               ELSE [fn |-> "NewCompiler", c |-> [db |-> Compiled(defs).db],
                     errors |-> Compiled(defs).errors, err |-> ""]
    /\ UNCHANGED <<wvars, dvars, xvars, cvars, rvars, defs>>

SpecCompile ==
    InitCompile /\ [][\E readOk \in BOOLEAN, parseOk \in BOOLEAN :
                        NewCompiler(readOk, parseOk)]_vars

----------------------------------------------------------------------------
(* pcapng.Reader: ReadNext returns the next CAN frame of the capture.  A
   uint32 is held as the set of the indices of its 1 bits. *)
MaxPackets == 2

LinkTypeLinuxSLL == 113
LinkTypeCAN == 227
SllHeaderLen == 16
RawHeaderLen == 8
IdFlagExtendedBit == 31
IdFlagRemoteBit == 30
IdFlagErrorBit == 29
IdMaskExtendedBits == 29
IdMaskStandardBits == 11

(* binary.LittleEndian.Uint32(data[0:4]) *)
Uint32LE(data) == { i \in 0..31 : ByteBit(data[(i \div 8) + 1], i % 8) = 1 }

(* an identifier that keeps the 29 low bits whatever the extension flag *)
MaskedIDAlwaysExtended(canIDRaw, isExtended) ==
    SumPow2(canIDRaw \cap (0..(IdMaskExtendedBits - 1)))

(* canIDRaw & idMaskExtended when isExtended, canIDRaw & idMaskStandard otherwise *)
MaskedID(canIDRaw, isExtended) ==
    IF isExtended THEN SumPow2(canIDRaw \cap (0..(IdMaskExtendedBits - 1)))
    ELSE SumPow2(canIDRaw \cap (0..(IdMaskStandardBits - 1)))

(* dataLen := data[4]; if dataLen > 8 { dataLen = 8 } *)
ClampedLen(data) == IF data[5] > DataLen THEN DataLen ELSE data[5]

(* var canData ecan.Data; if len(data) >= 8+int(dataLen) { copy(canData[:], data[8:8+dataLen]) } *)
CanData(data, dataLen) ==
    IF Len(data) >= RawHeaderLen + dataLen
    THEN [i \in 1..DataLen |-> IF i <= dataLen THEN data[RawHeaderLen + i] ELSE 0]
    ELSE [i \in 1..DataLen |-> 0]

(* Reader.extractRawCANFrame *)
extractRawCANFrame(data, ts) ==
    IF Len(data) < RawHeaderLen
    THEN [frame |-> Nil, isError |-> FALSE, err |-> "data too short for CAN frame"]
    ELSE LET canIDRaw == Uint32LE(data)
             isExtended == IdFlagExtendedBit \in canIDRaw
             isRemote == IdFlagRemoteBit \in canIDRaw
             isError == IdFlagErrorBit \in canIDRaw
             dataLen == ClampedLen(data)
         IN  [frame |-> [ID |-> MaskedID(canIDRaw, isExtended), Length |-> dataLen,
                         Data |-> CanData(data, dataLen), IsRemote |-> isRemote,
                         IsExtended |-> isExtended, Timestamp |-> ts],
              isError |-> isError, err |-> ""]

(* the payload extractCANFrame hands on: behind the 16-byte header when the
   capture is Linux cooked and gopacket decodes the SLL layer (the packet has
   at least 16 bytes), the whole packet otherwise; Nil for another link type *)
PayloadOf(data, lt) ==
    IF lt = LinkTypeLinuxSLL
    THEN IF Len(data) >= SllHeaderLen THEN Ptr(SubSeq(data, SllHeaderLen + 1, Len(data)))
         ELSE Ptr(data)
    ELSE IF lt = LinkTypeCAN THEN Ptr(data)
    ELSE Nil

(* Reader.extractCANFrame *)
extractCANFrame(data, ts, lt) ==
    IF PayloadOf(data, lt) = Nil THEN [frame |-> Nil, err |-> "unsupported link type"]
    ELSE LET r == extractRawCANFrame(PayloadOf(data, lt).val, ts) IN
         IF r.err # "" THEN [frame |-> Nil, err |-> "failed to extract RawCAN frame"]
         ELSE IF r.isError THEN [frame |-> Nil, err |-> "error in RawCAN frame"]
         ELSE [frame |-> r.frame, err |-> ""]

(* Reader.ReadNext: the for loop, on the packets pk with packetCount n *)
RECURSIVE ReadNextLoop(_, _, _)
ReadNextLoop(pk, n, lt) ==
    IF pk = << >>
    THEN [frame |-> Nil, err |-> "EOF", packets |-> pk, packetCount |-> n, payload |-> << >>]
    ELSE IF Head(pk).readErr
    THEN [frame |-> Nil, err |-> "failed to read packet data", packets |-> Tail(pk),
          packetCount |-> n, payload |-> << >>]
    ELSE LET r == extractCANFrame(Head(pk).data, Head(pk).ts, lt) IN
         IF r.err # "" THEN ReadNextLoop(Tail(pk), n + 1, lt)
         ELSE [frame |-> r.frame, err |-> "", packets |-> Tail(pk), packetCount |-> n + 1,
               payload |-> PayloadOf(Head(pk).data, lt).val]

(* inputs: raw CAN packets (identifier word, length byte, three bytes of
   padding, payload), packets too short to be one, Linux cooked packets, and
   a read that fails *)
RawCan(idBytes, dlc, payload) == idBytes \o <<dlc, 0, 0, 0>> \o payload

IdWords ==
    { <<35, 1, 0, 0>>,          \* standard 0x123
      <<255, 255, 255, 31>>,    \* standard, bits 11..28 set
      <<255, 255, 255, 159>>,   \* extended 0x1FFFFFFF
      <<35, 1, 0, 32>>,         \* error frame
      <<35, 1, 0, 64>> }        \* remote frame

Bodies ==
    { <<0, << >> >>, <<2, <<17, 34>> >>, <<2, <<17, 34, 51>> >>, <<4, <<17, 34>> >>,
      <<9, <<1, 2, 3, 4, 5, 6, 7, 8, 9>> >> }

Packets ==
    LET sllHeader == [i \in 1..SllHeaderLen |-> 0]
        packetData ==
            { RawCan(w, b[1], b[2]) : w \in IdWords, b \in Bodies }
            \cup { <<1, 2, 3>> }
            \cup { sllHeader \o RawCan(<<35, 1, 0, 0>>, 2, <<17, 34>>),
                   sllHeader \o RawCan(<<35, 1, 0, 32>>, 2, <<17, 34>>) }
    IN  { [data |-> d, ts |-> Stamp(1, 5), readErr |-> FALSE] : d \in packetData }
        \cup { [data |-> << >>, ts |-> Stamp(1, 5), readErr |-> TRUE] }

InitReader ==
    /\ WriterIdle
    /\ ExtractorIdle
    /\ ConverterIdle
    /\ CompilerIdle
    /\ db = << >>
    /\ dec = Nil
    /\ pb = Nil
    /\ packets \in UNION { [1..n -> Packets] : n \in 0..MaxPackets }
    /\ linkType \in { LinkTypeLinuxSLL, LinkTypeCAN, 1 }
    /\ packetCount = 0
    /\ rres = Nil

(* Reader.ReadNext, and ReadFrame which calls it *)
ReadNext ==
    /\ LET r == ReadNextLoop(packets, packetCount, linkType) IN
        /\ packets' = r.packets
        /\ packetCount' = r.packetCount
        /\ rres' = [fn |-> "ReadNext", frame |-> r.frame, err |-> r.err,
                    payload |-> r.payload]
    /\ UNCHANGED <<wvars, dvars, xvars, cvars, kvars, linkType>>

SpecReader == InitReader /\ [][ReadNext]_vars

----------------------------------------------------------------------------
(* Reading the record stream *)
ChannelRecords == { i \in DOMAIN records : records[i].type = "channel" }
MessageRecords == { i \in DOMAIN records : records[i].type = "message" }
RecKey(r) == channelKey(r.metadata.can_id, r.metadata.signal)
ChannelRecordsOf(k) == { i \in ChannelRecords : RecKey(records[i]) = k }
ResolvedIDs(k) == { e[2] : e \in { x \in resolved : x[1] = k } }

(* a thread is inside a call of the underlying mcap.Writer *)
InLib(p) == pc[p] \in {"inWriteChannel", "inWriteMessage", "inClose"}
(* a WriteDecodedSignal that has resolved its channel and not yet written *)
Resolving(p) == pc[p] \in {"inWriteChannel", "marshal", "inWriteMessage"}

----------------------------------------------------------------------------
(* C1: for a key whose channel-record writes all succeeded, every caller of
   ensureChannel, concurrent or later, got the same channel ID, and exactly one
   channel record for the key is in the stream once any caller has the ID
   (none before). *)
C1_SameIdOneRecord ==
    \A k \in Keys \ failedKeys :
        /\ Cardinality(ResolvedIDs(k)) <= 1
        /\ Cardinality(ChannelRecordsOf(k)) <= 1
        /\ ResolvedIDs(k) # {} =>
              /\ Cardinality(ChannelRecordsOf(k)) = 1
              /\ \A i \in ChannelRecordsOf(k) : ResolvedIDs(k) = {records[i].id}

(* two threads hold the ID of the same key at once, one of them from the cache *)
C1_Witness ==
    \E p, q \in Procs :
        /\ p # q
        /\ pc[p] = "marshal" /\ pc[q] = "marshal"
        /\ KeyOf(ds[p]) = KeyOf(ds[q])
        /\ KeyOf(ds[p]) \notin failedKeys
        /\ channelID[p] = channelID[q]
        /\ calls = MaxCalls

(* C2: in writer.go the first allocated channel ID is 1 and every later one is
   its predecessor plus 1. *)
C2_SequentialFromOne ==
    ver = "writer_go" => \A i \in DOMAIN allocated : allocated[i] = i

(* C3: every message record follows a channel record with its channel ID, and
   no key has two channel records in the stream. *)
C3_ChannelBeforeMessage ==
    /\ \A i \in MessageRecords :
          \E j \in ChannelRecords : j < i /\ records[j].id = records[i].channelID
    /\ \A i, j \in ChannelRecords :
          RecKey(records[i]) = RecKey(records[j]) => i = j

(* messages of two keys are in the stream, one key's channel write having
   failed before it succeeded *)
C3_Witness ==
    /\ Cardinality({ records[i].channelID : i \in MessageRecords }) >= 2
    /\ failedKeys # {}

(* C4: calls into the underlying mcap.Writer never overlap, and Close never
   runs while a WriteDecodedSignal is between channel resolution and the end
   of its message write. *)
C4_Serialized ==
    /\ \A p, q \in Procs : p # q => ~(InLib(p) /\ InLib(q))
    /\ \A p, q \in Procs : Resolving(p) => pc[q] # "inClose"

(* C5: a WriteDecodedSignal that began after Close returned appends nothing and
   returns an error. *)
C5_WriteAfterCloseFails ==
    [][ \A p \in Procs :
          (afterClose'[p] /\ (pc'[p] # pc[p] \/ ret'[p] # ret[p])) =>
              /\ records' = records
              /\ pc'[p] = "idle" => ret'[p] = "err" ]_vars

(* C6: LogTime and PublishTime of every message record are the signal's
   capture timestamp in nanoseconds. *)
C6_TimesFromCapture ==
    \A i \in MessageRecords :
        records[i].data.Timestamp # Nil =>
            /\ records[i].logTime = UnixNano(records[i].data.Timestamp)
            /\ records[i].publishTime = UnixNano(records[i].data.Timestamp)

(* C7: a channel record has the topic /can/<message>/<signal>, the shared
   schema ID, and metadata with can_id, message, signal, is_extended, and with
   unit exactly when the unit is not empty. *)
C7_ChannelRecordShape ==
    \A i \in ChannelRecords :
        LET r == records[i]
            m == r.metadata
        IN  \E d \in DecodedSignals :
              /\ r.topic = "/can/" \o d.MessageName \o "/" \o d.Name
              /\ r.schemaID = SchemaID
              /\ {"can_id", "message", "signal", "is_extended"} \subseteq DOMAIN m
              /\ m.can_id = (IF d.CanId = 256 THEN "0x100" ELSE "0x1A")
              /\ m.message = d.MessageName
              /\ m.signal = d.Name
              /\ m.is_extended = (IF d.IsExtended THEN "true" ELSE "false")
              /\ ("unit" \in DOMAIN m) <=> (d.Unit # "")
              /\ d.Unit # "" => m.unit = d.Unit

(* channel records of a signal with a unit and of one without are written *)
C7_Witness ==
    /\ \E i \in ChannelRecords : "unit" \in DOMAIN records[i].metadata
    /\ \E i \in ChannelRecords : "unit" \notin DOMAIN records[i].metadata

----------------------------------------------------------------------------
(* Reading the last Decode call *)
Descriptors(id) == { db[i] : i \in { j \in DOMAIN db : db[j].ID = id } }
Decoded == dec # Nil /\ dec.err = ""
SignalsOf(m) == { m.Signals[i] : i \in DOMAIN m.Signals }
Switches(m) == { s \in SignalsOf(m) : s.IsMultiplexer /\ ~s.IsMultiplexed }

(* C8: Decode returns an error and no signal map when the frame's ID has no
   descriptor, or its length or extension flag differs from the descriptor's,
   or it is a remote frame; otherwise it returns a signal map and no error. *)
C8_FailsWholeFrame ==
    dec # Nil =>
        LET f == dec.frame
            bad == \/ Descriptors(f.ID) = {}
                   \/ \E m \in Descriptors(f.ID) :
                         \/ m.Length # f.Length
                         \/ m.IsExtended # f.IsExtended
                         \/ f.IsRemote
        IN  /\ bad => dec.signals = Nil /\ dec.err # ""
            /\ ~bad => dec.signals # Nil /\ dec.err = ""

(* a remote frame that agrees with its descriptor in length and extension
   flag was rejected *)
C8_Witness ==
    /\ dec # Nil
    /\ dec.frame.IsRemote
    /\ \E m \in Descriptors(dec.frame.ID) :
          m.Length = dec.frame.Length /\ m.IsExtended = dec.frame.IsExtended
    /\ dec.signals = Nil
    /\ dec.err = "frame shape mismatch"

(* C9: the keys of a decoded frame's map are the non-multiplexed signals
   (the switch among them) and the multiplexed signals whose multiplexer value
   is the switch's unsigned value in the frame (bits 0-1 of byte 0 for Mode);
   without a switch no multiplexed signal is in the map. *)
C9_KeySet ==
    Decoded =>
        \A m \in Descriptors(dec.frame.ID) :
            LET plain == { s.Name : s \in { x \in SignalsOf(m) : ~x.IsMultiplexed } }
                switchValue == dec.frame.Data[1] % 4
                active == IF Switches(m) = {} THEN {}
                          ELSE { s.Name : s \in { x \in SignalsOf(m) :
                                   x.IsMultiplexed /\ x.MultiplexerValue = switchValue } }
            IN  DOMAIN dec.signals = plain \cup active

(* switch = 1: B and C are decoded, A is not in the map *)
C9_Witness ==
    /\ Decoded
    /\ dec.frame.ID = 256
    /\ dec.frame.Data[1] % 4 = 1
    /\ {"Mode", "B", "C"} \subseteq DOMAIN dec.signals
    /\ "A" \notin DOMAIN dec.signals

(* C10: the raw variant is bool for bit length 1, else float for the float
   flag, else signed for the signed flag, else unsigned; and the converter
   sets exactly one raw oneof field, the one of that variant. *)
C10_VariantPriority ==
    /\ Decoded =>
          \A n \in DOMAIN dec.signals :
              LET s == dec.signals[n].Signal
                  k == dec.signals[n].Raw.kind
              IN  /\ s.Length = 1 => k = "bool"
                  /\ s.Length # 1 /\ s.IsFloat => k = "float64"
                  /\ s.Length # 1 /\ ~s.IsFloat /\ s.IsSigned => k = "int64"
                  /\ s.Length # 1 /\ ~s.IsFloat /\ ~s.IsSigned => k = "uint64"
    /\ pb # Nil =>
          LET s == dec.signals[pb.Name].Signal
          IN  /\ Cardinality(DOMAIN pb.Raw) = 1
              /\ s.Length = 1 => DOMAIN pb.Raw = {"RawB"}
              /\ s.Length # 1 /\ s.IsFloat => DOMAIN pb.Raw = {"RawF"}
              /\ s.Length # 1 /\ ~s.IsFloat /\ s.IsSigned => DOMAIN pb.Raw = {"RawS"}
              /\ s.Length # 1 /\ ~s.IsFloat /\ ~s.IsSigned => DOMAIN pb.Raw = {"RawU"}

(* a one-bit signal with the float and signed flags set became a bool *)
C10_Witness ==
    /\ pb # Nil
    /\ pb.Name = "Probe"
    /\ LET s == dec.signals["Probe"].Signal
       IN  s.Length = 1 /\ s.IsFloat /\ s.IsSigned
    /\ DOMAIN pb.Raw = {"RawB"}

----------------------------------------------------------------------------
(* Decoding under SpecPhysical: a database of one signal *)

DecodedEntries == IF Decoded THEN { dec.signals[n] : n \in DOMAIN dec.signals } ELSE {}
Unranged(s) == s.Min = 0 /\ s.Max = 0

(* C11: for a signal longer than one bit, the decoded signal carries a
   physical value exactly when the signal is not float-typed and at least one
   of scale, offset, min, max is non-zero; otherwise Physical is nil. *)
C11_PhysicalIff ==
    \A e \in DecodedEntries :
        e.Signal.Length > 1 =>
            ((e.Physical # Nil) <=>
                (/\ ~e.Signal.IsFloat
                 /\ (e.Signal.Scale # 0 \/ e.Signal.Offset # 0
                        \/ e.Signal.Min # 0 \/ e.Signal.Max # 0)))

(* a signal of three bits with only max set was decoded with a physical value,
   and the proto built from it carries that value *)
C11_Witness ==
    /\ \E e \in DecodedEntries :
            /\ e.Signal.Length > 1 /\ ~e.Signal.IsFloat
            /\ e.Signal.Scale = 0 /\ e.Signal.Offset = 0
            /\ e.Signal.Min = 0 /\ e.Signal.Max # 0
            /\ e.Physical # Nil
    /\ pb # Nil
    /\ pb.Physical # Nil

(* C12, as stated: an integer signal with scale 1, offset 0 and no range is
   decoded without a physical value, and one with scale 0.1, offset 40 gets
   raw*0.1+40 (values in tenths). *)
C12_UnitScaleOmitted ==
    \A e \in DecodedEntries :
        (e.Signal.Length > 1 /\ ~e.Signal.IsFloat /\ Unranged(e.Signal)) =>
            /\ (e.Signal.Scale = 10 /\ e.Signal.Offset = 0) => e.Physical = Nil
            /\ (e.Signal.Scale = 1 /\ e.Signal.Offset = 400) =>
                    e.Physical = Ptr(e.Raw.val + 400)

(* C12, amended: an integer signal with scale 1, offset 0 and no range is
   decoded with the physical value raw*1+0 = raw; one with scale 0.1,
   offset 40 gets raw*0.1+40; the physical value is omitted only when scale
   and offset are both 0 (values in tenths). *)
C12_ScaleOffset ==
    \A e \in DecodedEntries :
        (e.Signal.Length > 1 /\ ~e.Signal.IsFloat /\ Unranged(e.Signal)) =>
            /\ (e.Signal.Scale = 10 /\ e.Signal.Offset = 0) =>
                    e.Physical = Ptr(10 * e.Raw.val)
            /\ (e.Signal.Scale = 1 /\ e.Signal.Offset = 400) =>
                    e.Physical = Ptr(e.Raw.val + 400)
            /\ (e.Signal.Scale = 0 /\ e.Signal.Offset = 0) => e.Physical = Nil

(* a signed three-bit signal with scale 0.1 and offset 40 was decoded from a
   negative raw value *)
C12_Witness ==
    \E e \in DecodedEntries :
        /\ e.Signal.Length > 1 /\ ~e.Signal.IsFloat /\ Unranged(e.Signal)
        /\ e.Signal.Scale = 1 /\ e.Signal.Offset = 400
        /\ e.Raw.kind = "int64" /\ e.Raw.val < 0
        /\ e.Physical = Ptr(400 + e.Raw.val)

----------------------------------------------------------------------------
(* The bit extractor under SpecExtract *)

Called(fn) == xres # Nil /\ xres.fn = fn

(* the signed and unsigned readings of a uint64 held as a bit set, for words
   whose magnitude is below 2^30 *)
Int64Fits(w) ==
    IF (WordBits - 1) \in w THEN ((0..(WordBits - 1)) \ w) \subseteq 0..29
    ELSE w \subseteq 0..29

Int64Of(w) ==
    IF (WordBits - 1) \in w THEN -SumPow2((0..(WordBits - 1)) \ w) - 1
    ELSE SumPow2(w)

(* C13: for every buffer, start bit and length n <= 64, extractIntelSignal
   returns the word whose bit i (i < n) is bit (start+i) mod 8 of byte
   (start+i) div 8 when that byte is inside the buffer and 0 otherwise, and
   whose bits from n on are 0. *)
C13_IntelReference ==
    (Called("extractIntelSignal") /\ xsig.BitLength <= WordBits) =>
        xres.value =
            { i \in 0..(xsig.BitLength - 1) :
                LET pos == xsig.StartBit + i
                IN  /\ pos \div 8 < Len(xdata)
                    /\ (xdata[(pos \div 8) + 1] \div (2 ^ (pos % 8))) % 2 = 1 }

(* an 8-bit field at bit 3 was read from the one-byte buffer <<198>>: the
   five bits inside the buffer give 24, the three outside give 0 *)
C13_Witness ==
    /\ Called("extractIntelSignal")
    /\ xdata = <<198>>
    /\ xsig.StartBit = 3 /\ xsig.BitLength = 8
    /\ xres.value = {3, 4}

(* C14: when start-length+1 >= 0, extractMotorolaSignal (its within-byte
   branch) returns what the per-bit loop of the boundary-crossing branch
   returns for the same inputs: result bit length-1-i is intra-byte bit
   7-((start-i) mod 8) of byte (start-i) div 8, or 0 outside the buffer. *)
C14_BranchesAgree ==
    (Called("extractMotorolaSignal") /\ xsig.StartBit - xsig.BitLength + 1 >= 0) =>
        /\ xres.value = MotorolaSpanning(xdata, xsig.StartBit, xsig.BitLength)
        /\ xres.value =
            { xsig.BitLength - 1 - i : i \in
                { j \in 0..(xsig.BitLength - 1) :
                    LET pos == xsig.StartBit - j
                    IN  /\ pos >= 0
                        /\ pos \div 8 < Len(xdata)
                        /\ (xdata[(pos \div 8) + 1] \div (2 ^ (7 - (pos % 8)))) % 2 = 1 } }

(* a 16-bit field with start 15 was read by the within-byte branch from a
   buffer whose bytes 0 and 1 both hold 1 bits *)
C14_Witness ==
    /\ Called("extractMotorolaSignal")
    /\ xsig.StartBit = 15 /\ xsig.BitLength = 16
    /\ Len(xdata) = 2 /\ xdata[1] = 45 /\ xdata[2] = 198
    /\ \E i \in xres.value : i < 8
    /\ \E i \in xres.value : i >= 8

(* C15: a Motorola signal with start=7 and length=16 is read from bytes 0
   and 1: the result is the 16-bit value with byte 0 as its high byte and
   byte 1 as its low byte. *)
C15_SpansTwoBytes ==
    (/\ Called("extractMotorolaSignal")
     /\ xsig.StartBit = 7 /\ xsig.BitLength = 16
     /\ Len(xdata) >= 2) =>
        SumPow2(xres.value) = 256 * xdata[1] + xdata[2]

(* C16: extractSignalValue returns no error whatever the size of the buffer,
   and DecodeFrame of a known identifier does not fail because of it. *)
C16_NoSizeError ==
    (Called("extractSignalValue") \/ (Called("DecodeFrame") /\ xres.CanID = 256)) =>
        xres.err = ""

(* C17: for n in 2..63 and a signed signal, a value v written as an n-bit
   two's-complement field at the signal's position is returned as the 64-bit
   word whose signed reading is v; and whatever the buffer, the word is the
   extracted field with bits n..63 set when the field's sign bit is set, and
   the field unchanged when it is clear. *)
C17_SignExtensionRoundTrip ==
    (Called("extractSignalValue") /\ xsig.IsSigned /\ xsig.BitLength \in 2..(WordBits - 1)) =>
        /\ \A v \in FieldValues :
              (/\ Representable(v, xsig.BitLength)
               /\ xsig.ByteOrder = 1
               /\ xdata = WriteIntel(v, xsig)) =>
                    (Int64Fits(xres.value) /\ Int64Of(xres.value) = v)
        /\ xres.err = "" =>
              LET n == xsig.BitLength
                  field == IF xsig.ByteOrder = 1
                           THEN extractIntelSignal(xdata, xsig.StartBit, n)
                           ELSE extractMotorolaSignal(xdata, xsig.StartBit, n)
              IN  /\ xres.value \cap (0..(n - 1)) = field
                  /\ xres.value \cap (n..(WordBits - 1)) =
                        IF (n - 1) \in field THEN n..(WordBits - 1) ELSE {}

(* -8 was written as a 63-bit field at bit 1 and read back as -8 *)
C17_Witness ==
    /\ Called("extractSignalValue")
    /\ xsig.IsSigned /\ xsig.BitLength = 63 /\ xsig.StartBit = 1
    /\ xdata = WriteIntel(-8, xsig)
    /\ Int64Fits(xres.value)
    /\ Int64Of(xres.value) = -8

----------------------------------------------------------------------------
(* The frame loop under SpecConvert *)

(* C18: a frame whose decode fails (unknown identifier or shape mismatch)
   neither ends the loop nor makes run return: the step that handles the
   failure goes back to the head of the loop with run still running and the
   rest of the stream still to be read. *)
C18_DecodeErrorContinues ==
    [][(cpc = "decode" /\ cpc' # "decode" /\ DecodeResult(frame).err # "") =>
            (/\ cpc' = "select"
             /\ runRet' = "none"
             /\ mwCloseCalls' = 0
             /\ stream' = stream)]_vars

(* two frames have failed to decode and a third one has been read *)
C18_Witness ==
    /\ cpc = "decode"
    /\ decodeErrors >= 2
    /\ framesRead >= 3
    /\ runRet = "none"

(* C19: at the head of the loop the frame counter equals the number of
   frames read (a frame of an unknown identifier is skipped but counted) and
   the decoded-message counter equals the number of frames decoded. *)
C19_CountersMatch ==
    cpc = "select" => (frameCount = framesRead /\ messageCount = framesDecoded)

(* C20: once a WriteDecodedSignal call has returned an error, run has
   stopped and returned an error. *)
C20_WriteErrorStops ==
    writeErrors > 0 => (cpc = "done" /\ runRet \notin {"none", "nil"})

(* C21: run returns the cancellation error only from the select at the
   head of the loop, where no frame is in flight; a step that decodes the
   current frame or writes one of its signals never makes run return, the
   loop comes back to the select only when every signal of the frame has
   been iterated; a select that finds ctx.Done() closed returns "conversion
   cancelled", and once run has returned no frame is read and no signal is
   written. *)
C21_CancelBetweenFrames ==
    [][/\ (cpc # "done" /\ cpc' = "done" /\ runRet' = "conversion cancelled") =>
              (cpc = "select" /\ pending = {} /\ ctxDone)
       /\ (cpc \in {"decode", "signals"}) => (cpc' # "done" /\ runRet' = "none")
       /\ (cpc = "signals" /\ cpc' = "select") => pending = {}
       /\ (cpc = "select" /\ ctxDone /\ cpc' # cpc) =>
              (cpc' = "done" /\ runRet' = "conversion cancelled")
       /\ (cpc = "done") =>
              (/\ framesRead' = framesRead /\ stream' = stream
               /\ written' = written /\ signalRecords' = signalRecords
               /\ runRet' = runRet)]_vars

(* ctx was cancelled while a frame was in flight: one of its signals is
   written, another is still to be written, and run has not returned *)
C21_Witness ==
    /\ ctxDone
    /\ cpc = "signals"
    /\ pending # {}
    /\ \E n \in SignalNames : <<framesRead, n>> \in written
    /\ runRet = "none"

(* C28: while run is in the loop mw.Close has not been called; the step
   that makes run return (end of stream, cancellation, read error) calls it
   once, and after that step neither another Close nor a WriteDecodedSignal
   call is made and no record is written. *)
C28_CloseOnceAtExit ==
    [][/\ (cpc # "done") => mwCloseCalls = 0
       /\ (cpc # "done" /\ cpc' = "done") => mwCloseCalls' = 1
       /\ (mwCloseCalls > 0) =>
              (/\ mwCloseCalls' = mwCloseCalls
               /\ written' = written
               /\ signalRecords' = signalRecords
               /\ writeErrors' = writeErrors)]_vars

(* run has written signals, met a read error and returned, and Close has
   been called *)
C28_Witness ==
    /\ cpc = "done"
    /\ runRet = "failed to read frame"
    /\ written # {}
    /\ mwCloseCalls = 1

----------------------------------------------------------------------------
(* Decoder.DecodeFrame of the can package under SpecExtract *)

(* C24: DecodeFrame of a known identifier whose payload length differs from
   the size the dictionary declares returns an error and no signals. *)
C24_SizeMismatchRejected ==
    (/\ Called("DecodeFrame")
     /\ DbcMessage(xres.CanID) # Nil
     /\ Len(xdata) # DbcMessage(xres.CanID).Size) =>
        (xres.err # "" /\ xres.Signals = Nil)

(* C25: for a signed signal whose field has its sign bit set, the
   PhysicalValue DecodeFrame stores is the one ApplyScaleOffset computes for
   the raw value with isSigned = true: the negative two's-complement value
   times the scale plus the offset. *)
C25_SignedPhysical ==
    (/\ Called("DecodeFrame")
     /\ xres.err = ""
     /\ xsig.IsSigned
     /\ (xsig.BitLength - 1) \in xres.Signals[xsig.Name].RawValue) =>
        xres.Signals[xsig.Name].PhysicalValue =
            ApplyScaleOffset(xres.Signals[xsig.Name].RawValue, xsig.Scale, xsig.Offset,
                             TRUE, xsig.BitLength)

----------------------------------------------------------------------------
(* The channel registry at the end of the uint16 counter, under SpecWrap *)

(* C26: in every step the keys already in the channels map stay in it with
   the same ID, and after the step no two distinct keys have the same ID. *)
C26_KeysInjectiveImmutable ==
    [][/\ \A k \in DOMAIN channels : k \in DOMAIN channels' /\ channels'[k] = channels[k]
       /\ \A k1, k2 \in DOMAIN channels' :
              k1 # k2 => channels'[k1] # channels'[k2]]_vars

(* C27: the step in which WriteChannel fails returns ID 0 and an error to
   WriteDecodedSignal, which returns without writing a message record, and
   leaves the channels map and the record stream as they were; a later
   ensureChannel for a key that has failed and is not cached allocates an ID
   larger than every ID allocated before. *)
C27_FailedChannelRetried ==
    [][\A p \in Procs :
        /\ (pc[p] = "inWriteChannel" /\ pc'[p] = "idle") =>
              (/\ channelID'[p] = 0 /\ ret'[p] = "err"
               /\ channels' = channels /\ records' = records)
        /\ (/\ pc[p] = "ensureChannel" /\ pc'[p] = "inWriteChannel"
            /\ KeyOf(ds[p]) \in failedKeys) =>
              \A i \in DOMAIN allocated : chID'[p] > allocated[i]]_vars

----------------------------------------------------------------------------
(* The DBC compiler under SpecCompile *)

(* C22: when compiling the definitions has recorded an error in c.errors,
   NewCompiler returns an error and no Compiler. *)
C22_RecordedErrorFatal ==
    (comp # Nil /\ comp.errors # << >>) => (comp.err # "" /\ comp.c = Nil)

(* C29: over the signals of every compiled message the less function never
   reports both a before b and b before a, and the sorted list is ordered by
   multiplexer value and then by start bit. *)
C29_SignalOrderStrict ==
    (comp # Nil /\ comp.c # Nil) =>
        \A m \in DOMAIN comp.c.db.Messages :
            LET sigs == comp.c.db.Messages[m].Signals IN
            /\ \A i, j \in DOMAIN sigs :
                  ~(SignalLess(sigs[i], sigs[j]) /\ SignalLess(sigs[j], sigs[i]))
            /\ \A i, j \in DOMAIN sigs :
                  i < j =>
                    \/ sigs[i].MultiplexerValue < sigs[j].MultiplexerValue
                    \/ /\ sigs[i].MultiplexerValue = sigs[j].MultiplexerValue
                       /\ sigs[i].Start <= sigs[j].Start

----------------------------------------------------------------------------
(* The capture reader under SpecReader *)

(* C23: a frame ReadNext returns has an identifier below 2^29 when
   IsExtended and below 2^11 otherwise, a Length of at most 8, and comes
   from a packet of a CAN link type that holds at least the 8-byte header
   and whose identifier word has the error flag clear. *)
C23_FrameWellFormed ==
    (rres # Nil /\ rres.err = "") =>
        /\ rres.frame.ID < (IF rres.frame.IsExtended THEN Pow2(IdMaskExtendedBits)
                            ELSE Pow2(IdMaskStandardBits))
        /\ rres.frame.ID >= 0
        /\ rres.frame.Length <= DataLen
        /\ linkType \in {LinkTypeLinuxSLL, LinkTypeCAN}
        /\ Len(rres.payload) >= RawHeaderLen
        /\ IdFlagErrorBit \notin Uint32LE(rres.payload)

(* after an error frame was skipped, ReadNext returned a standard frame whose
   identifier word had bits 11 to 28 set and whose length byte was 9 *)
C23_Witness ==
    /\ rres # Nil /\ rres.err = ""
    /\ packetCount = 2
    /\ ~rres.frame.IsExtended
    /\ rres.frame.ID = Pow2(IdMaskStandardBits) - 1
    /\ rres.payload[5] = 9
    /\ rres.frame.Length = DataLen

(* C30: Data of a returned frame holds the packet's payload bytes at offsets
   8 .. 8+Length-1 in its first Length bytes, as far as the packet has
   them, and zero in the others, packets shorter than 8+Length included. *)
C30_DataIsPayload ==
    (rres # Nil /\ rres.err = "") =>
        \A i \in 1..DataLen :
            rres.frame.Data[i] =
                IF i <= rres.frame.Length /\ RawHeaderLen + i <= Len(rres.payload)
                THEN rres.payload[RawHeaderLen + i]
                ELSE 0

====
